---- MODULE Spec2Model ----
(***************************************************************************)
(* Model of the search core of nl_find: the backend drivers               *)
(* (nl_find/core/backends.py), the backend selector, the search executor  *)
(* with its universal post-filter (nl_find/core/executor.py), the older   *)
(* executor that walks the tree itself (src/core/executor.py) and the     *)
(* data model (src/core/models.py).                                       *)
(*                                                                         *)
(* Strings are sequences of one-character strings, so that fnmatch,       *)
(* Path.suffix, str.lower, str.startswith and the sort on lower-cased     *)
(* names are computed character by character as the library computes      *)
(* them.  Optional values are <<>> (None) or <<v>>.                        *)
(***************************************************************************)
EXTENDS Integers, Sequences, FiniteSets, TLC

VARIABLES
    backend,      \* SearchExecutor.backend: name of the backend instance
    params,       \* the SearchParams handed to execute
    pc,           \* position inside execute / select_backend
    stream,       \* candidates the backend generator has still to yield
    yielded,      \* paths the backend generator has yielded so far
    files,        \* execute's local list `files` (FileInfo records)
    result,       \* SearchResult.files once execute has returned
    raised,       \* exception that left the operation, "" when none
    tool,         \* outcome of the adapter's subprocess.run on this call
    searchCalls,  \* number of backend.search generators that were started
    statted,      \* paths on which stat()/is_dir() was called by execute
    contentRead,  \* paths whose content was read by _content_matches
    failed,       \* candidates that hit a metadata/content read failure
    env,          \* what platform.system / shutil.which / Path.exists report
    preference,   \* the preference string handed to select_backend
    clock,        \* datetime.now() at this moment, POSIX seconds
    cmds,         \* the argument lists _build_command has returned so far
    size_str,     \* the argument of _parse_size
    content,      \* what the LLM service answered to LLMParser.parse
    parsed,       \* what _parse_size / LLMParser.parse returned
    search_bar,   \* SearchBar: enabled state of search_input and search_btn
    request,      \* the search_requested signal _on_search handled last
    workers,      \* the SearchWorker threads created so far, by number
    search_worker,\* MainWindow.search_worker: number of the worker, 0 = None
    signals,      \* finished/error signals queued for the GUI thread
    shown         \* number of the worker whose outcome the window shows

\* the state of a search execution and of the backend selection
execVars == <<backend, params, pc, stream, yielded, files, result, raised,
              tool, searchCalls, statted, contentRead, failed, env,
              preference>>
\* the clock and the command builders
buildVars == <<clock, cmds>>
\* the LLM parser
parserVars == <<size_str, content, parsed>>
\* the GUI
guiVars == <<search_bar, request, workers, search_worker, signals, shown>>

vars == <<backend, params, pc, stream, yielded, files, result, raised, tool,
          searchCalls, statted, contentRead, failed, env, preference,
          clock, cmds, size_str, content, parsed,
          search_bar, request, workers, search_worker, signals, shown>>

----------------------------------------------------------------------------
(* Bounds of the model *)

\* largest number of SearchParams fields (those of the query included) that
\* differ from their defaults
MaxFilters == 2
\* largest SearchParams.limit that is tried besides the default
MaxLimit == 2
\* largest number of per-candidate read failures injected into one execute
MaxFailures == 1
\* largest number of half days the clock advances
MaxTicks == 2
\* largest number of _build_command calls on one adapter
MaxCalls == 2
\* largest number of SearchWorker threads the window starts
MaxSearches == 3

----------------------------------------------------------------------------
(* Optional values *)

None == <<>>
Some(v) == <<v>>
IsSet(o) == o # <<>>
Val(o) == o[1]

----------------------------------------------------------------------------
(* Characters and strings *)

\* code point of the characters that occur in the model
Ord(c) ==
    CASE c = "*" -> 42 [] c = "." -> 46 [] c = "/" -> 47 [] c = "2" -> 50
      [] c = "?" -> 63
      [] c = "A" -> 65 [] c = "B" -> 66 [] c = "H" -> 72 [] c = "I" -> 73
      [] c = "P" -> 80 [] c = "Y" -> 89
      [] c = "a" -> 97 [] c = "b" -> 98 [] c = "c" -> 99 [] c = "d" -> 100
      [] c = "h" -> 104 [] c = "i" -> 105 [] c = "n" -> 110 [] c = "p" -> 112
      [] c = "s" -> 115 [] c = "t" -> 116 [] c = "x" -> 120 [] c = "y" -> 121
      [] OTHER -> 0

\* str.lower on one character
LowerChar(c) ==
    CASE c = "A" -> "a" [] c = "B" -> "b" [] c = "H" -> "h" [] c = "I" -> "i"
      [] c = "P" -> "p" [] c = "Y" -> "y"
      [] OTHER -> c

\* str.lower
Lower(s) == [i \in 1..Len(s) |-> LowerChar(s[i])]

\* str.startswith
StartsWith(s, prefix) ==
    /\ Len(prefix) <= Len(s)
    /\ SubSeq(s, 1, Len(prefix)) = prefix

\* the `in` operator on strings: needle occurs in hay
Contains(hay, needle) ==
    \E i \in 0..(Len(hay) - Len(needle)) :
        SubSeq(hay, i + 1, i + Len(needle)) = needle

\* str.lstrip(".")
RECURSIVE LStripDot(_)
LStripDot(s) ==
    IF s # <<>> /\ Head(s) = "." THEN LStripDot(Tail(s)) ELSE s

\* s1 < s2 in Python's string order (lexicographic on code points)
RECURSIVE StrLess(_, _)
StrLess(s1, s2) ==
    IF s2 = <<>> THEN FALSE
    ELSE IF s1 = <<>> THEN TRUE
    ELSE IF Ord(Head(s1)) # Ord(Head(s2)) THEN Ord(Head(s1)) < Ord(Head(s2))
    ELSE StrLess(Tail(s1), Tail(s2))

\* fnmatch.fnmatch on a POSIX system (normcase keeps the case): `*` matches
\* any run of characters, `?` one character, anything else itself; the
\* whole name has to match.  Bracket expressions do not occur in the model.
RECURSIVE fnmatch(_, _)
fnmatch(name, pat) ==
    IF pat = <<>> THEN name = <<>>
    ELSE IF Head(pat) = "*"
         THEN \/ fnmatch(name, Tail(pat))
              \/ (name # <<>> /\ fnmatch(Tail(name), pat))
    ELSE IF name = <<>> THEN FALSE
    ELSE IF Head(pat) = "?" THEN fnmatch(Tail(name), Tail(pat))
    ELSE Head(pat) = Head(name) /\ fnmatch(Tail(name), Tail(pat))

----------------------------------------------------------------------------
(* Paths: sequences of components below the filesystem root *)

\* index of the last "." of a name, 0 when there is none (str.rfind + 1)
RDot(name) ==
    IF \E i \in 1..Len(name) : name[i] = "."
    THEN CHOOSE i \in 1..Len(name) :
            /\ name[i] = "."
            /\ \A j \in (i + 1)..Len(name) : name[j] # "."
    ELSE 0

\* PurePath.name
PathName(path) == path[Len(path)]

\* PurePath.suffix: from the last dot, unless that dot leads or ends the name
PathSuffix(path) ==
    LET name == PathName(path)
        i    == RDot(name)
    IN  IF 1 < i /\ i < Len(name) THEN SubSeq(name, i, Len(name)) ELSE <<>>

\* str(path): the components joined by "/" below the root
RECURSIVE PathStr(_)
PathStr(path) ==
    IF path = <<>> THEN <<>>
    ELSE <<"/">> \o Head(path) \o PathStr(Tail(path))

\* base / relative
PathJoin(base, rel) == base \o rel

\* Path.resolve on an absolute path without symbolic links: "." components
\* are dropped
PathIsNotDot(c) == c # <<".">>
PathResolve(path) == SelectSeq(path, PathIsNotDot)

----------------------------------------------------------------------------
(* The directory tree the searches run against *)

\* datetime.now(), as a POSIX timestamp in seconds
Now == 864000

nBase   == <<"d">>
nSib    == <<"d", "2">>
nSub    == <<"s">>
nApy    == <<"a", ".", "p", "y">>
nBPY    == <<"B", ".", "P", "Y">>
nHidden == <<".", "h">>
nGone   == <<"n">>

BasePath    == <<nBase>>
FilePath    == <<nBase, nApy>>
MissingPath == <<nGone>>

\* The entries of the tree in the order the operating system lists them.
\* d/a.py and d/s/a.py tie on name, size and both timestamps; d/B.PY sits
\* exactly on the size and time bounds the queries use; d2 is a sibling of
\* the base directory whose name starts with the base directory's name.
Tree ==
    << [path |-> <<nBase, nApy>>, is_dir |-> FALSE, size |-> 100,
        mtime |-> Now - 3600, ctime |-> Now - 7200, text |-> <<"H", "i">>],
       [path |-> <<nBase, nBPY>>, is_dir |-> FALSE, size |-> 1024,
        mtime |-> Now - 86400, ctime |-> Now - 90000, text |-> <<"x">>],
       [path |-> <<nBase, nHidden>>, is_dir |-> FALSE, size |-> 14,
        mtime |-> Now - 259200, ctime |-> Now - 259200, text |-> <<"h", "i">>],
       [path |-> <<nBase, nSub>>, is_dir |-> TRUE, size |-> 0,
        mtime |-> Now - 3600, ctime |-> Now - 7200, text |-> <<>>],
       [path |-> <<nBase, nSub, nApy>>, is_dir |-> FALSE, size |-> 100,
        mtime |-> Now - 3600, ctime |-> Now - 7200, text |-> <<"x">>],
       [path |-> <<nSib, nApy>>, is_dir |-> FALSE, size |-> 30,
        mtime |-> Now - 3600, ctime |-> Now - 3600, text |-> <<"H", "i">>] >>

TreePaths == {Tree[i].path : i \in 1..Len(Tree)}

\* os.stat / os.scandir view of one existing path
Entry(path) == CHOOSE e \in {Tree[i] : i \in 1..Len(Tree)} : e.path = path

\* Path.exists and Path.is_dir on the base path of a query
PathExists(path) == path = BasePath \/ path \in TreePaths
PathIsDir(path) ==
    \/ path = BasePath
    \/ (path \in TreePaths /\ Entry(path).is_dir)

\* path lies somewhere below dir / is a direct child of dir
IsBelow(path, dir) ==
    Len(path) > Len(dir) /\ SubSeq(path, 1, Len(dir)) = dir
IsChildOf(path, dir) == IsBelow(path, dir) /\ Len(path) = Len(dir) + 1

Reverse(s) == [i \in 1..Len(s) |-> s[Len(s) + 1 - i]]

\* the orders in which a directory walk may deliver the tree: the listing
\* order of the operating system or its reverse
ListingOrders == {Tree, Reverse(Tree)}

----------------------------------------------------------------------------
(* Data model: SearchQuery, SearchParams, FileInfo *)

SortFields == {"name", "size", "modified", "created"}
SortOrders == {"asc", "desc"}

\* SearchQuery with the defaults of its fields (path set to the base
\* directory of the tree)
DefaultQuery ==
    [path |-> BasePath, pattern |-> None, extensions |-> <<>>,
     min_size |-> None, max_size |-> None,
     modified_after |-> None, modified_before |-> None,
     content_pattern |-> None, include_hidden |-> FALSE, recursive |-> TRUE]

AllQueries ==
    [path : {BasePath, FilePath, MissingPath},
     pattern : {None, Some(<<"*", ".", "p", "y">>), Some(<<"a", "*">>)},
     extensions : {<<>>, << <<".", "p", "y">> >>, << <<".", "P", "Y">> >>,
                   << <<"p", "y">> >>},
     min_size : {None, Some(100), Some(1024)},
     max_size : {None, Some(100)},
     modified_after : {None, Some(Now - 86400)},
     modified_before : {None, Some(Now - 86400)},
     content_pattern : {None, Some(<<"h", "i">>)},
     include_hidden : BOOLEAN,
     recursive : BOOLEAN]

AllQueryFields == DOMAIN DefaultQuery

\* SearchParams with the defaults of its fields
DefaultParams ==
    [query |-> DefaultQuery, sort_by |-> "name", sort_order |-> "asc",
     limit |-> 1000]

\* number of fields of the SearchParams p, those of its query included,
\* that differ from the defaults
NonDefault(p) ==
    Cardinality({f \in AllQueryFields : p.query[f] # DefaultQuery[f]})
    + Cardinality({f \in {"sort_by", "sort_order", "limit"} :
                      p[f] # DefaultParams[f]})

\* the SearchParams the model runs: at most MaxFilters fields are set
AllParams ==
    {p \in [query : AllQueries, sort_by : SortFields,
            sort_order : SortOrders,
            limit : 0..MaxLimit \cup {DefaultParams.limit}] :
        NonDefault(p) <= MaxFilters}

\* FileInfo.from_path on an existing path
FileInfoFromPath(path) ==
    LET st == Entry(path)
    IN  [path |-> PathResolve(path), name |-> PathName(path),
         extension |-> PathSuffix(path), size |-> st.size,
         created |-> st.ctime, modified |-> st.mtime, is_dir |-> st.is_dir]

----------------------------------------------------------------------------
(* Backends: PythonBackend *)

\* truth value of an Optional[str]: None and "" are both false
Truthy(o) == IsSet(o) /\ Val(o) # <<>>

\* path.suffix.lower() in [ext.lower() for ext in extensions]
SuffixIn(path, extensions) ==
    \E i \in 1..Len(extensions) :
        Lower(PathSuffix(path)) = Lower(extensions[i])

\* the bounds with an unset max_size read as the number 0
StatBoundsOk_unset_max_is_zero(st, q) ==
    /\ ~(IsSet(q.min_size) /\ st.size < Val(q.min_size))
    /\ ~(st.size > (IF IsSet(q.max_size) THEN Val(q.max_size) ELSE 0))
    /\ ~(IsSet(q.modified_after) /\ st.mtime < Val(q.modified_after))
    /\ ~(IsSet(q.modified_before) /\ st.mtime > Val(q.modified_before))

\* the stat part shared by the filters: size and modification-time bounds
StatBoundsOk(st, q) ==
    /\ ~(IsSet(q.min_size) /\ st.size < Val(q.min_size))
    /\ ~(IsSet(q.max_size) /\ st.size > Val(q.max_size))
    /\ ~(IsSet(q.modified_after) /\ st.mtime < Val(q.modified_after))
    /\ ~(IsSet(q.modified_before) /\ st.mtime > Val(q.modified_before))

\* _matches_query without its extension check
PythonBackend_matches_query_no_extension(path, q) ==
    /\ ~Entry(path).is_dir
    /\ ~(~q.include_hidden /\ StartsWith(PathName(path), <<".">>))
    /\ ~(Truthy(q.pattern) /\ ~fnmatch(PathName(path), Val(q.pattern)))
    /\ StatBoundsOk(Entry(path), q)

\* PythonBackend._matches_query
PythonBackend_matches_query(path, q) ==
    /\ ~Entry(path).is_dir
    /\ ~(~q.include_hidden /\ StartsWith(PathName(path), <<".">>))
    /\ ~(Truthy(q.pattern) /\ ~fnmatch(PathName(path), Val(q.pattern)))
    /\ ~(q.extensions # <<>> /\ ~SuffixIn(path, q.extensions))
    /\ StatBoundsOk(Entry(path), q)

\* Path.rglob("*") / Path.glob("*") over a listing of the tree
Glob(dir, recursive, listing) ==
    LET Below(e) == IF recursive THEN IsBelow(e.path, dir)
                    ELSE IsChildOf(e.path, dir)
        kept == SelectSeq(listing, Below)
    IN  [i \in 1..Len(kept) |-> kept[i].path]

\* PythonBackend.search: the paths of the walk that _matches_query accepts
PythonBackend_search(q, listing) ==
    LET Match(path) == PythonBackend_matches_query(path, q)
    IN  SelectSeq(Glob(q.path, q.recursive, listing), Match)

----------------------------------------------------------------------------
(* Backends: FdBackend *)

\* FdBackend._build_command; the argument list as a record of its options
FdBackend_build_command(q) ==
    [program   |-> "fd",
     type      |-> "f",
     hidden    |-> q.include_hidden,
     max_depth |-> IF ~q.recursive THEN Some(1) ELSE None,
     extension |-> [i \in 1..Len(q.extensions) |-> LStripDot(q.extensions[i])],
     size_min  |-> IF IsSet(q.min_size)
                   THEN Some([sign |-> "+", n |-> Val(q.min_size), unit |-> "b"])
                   ELSE None,
     size_max  |-> IF IsSet(q.max_size)
                   THEN Some([sign |-> "-", n |-> Val(q.max_size), unit |-> "b"])
                   ELSE None,
     pattern   |-> IF Truthy(q.pattern) THEN Val(q.pattern) ELSE <<".">>]

\* regular-expression search as fd applies its pattern argument: literals,
\* "." and a postfix "*"; the match may start anywhere in the name
RECURSIVE RegexHere(_, _), RegexStar(_, _, _)
RegexHere(re, s) ==
    IF re = <<>> THEN TRUE
    ELSE IF Len(re) >= 2 /\ re[2] = "*"
         THEN RegexStar(re[1], SubSeq(re, 3, Len(re)), s)
    ELSE /\ s # <<>>
         /\ (re[1] = "." \/ re[1] = s[1])
         /\ RegexHere(Tail(re), Tail(s))
RegexStar(c, re, s) ==
    \/ RegexHere(re, s)
    \/ (s # <<>> /\ (c = "." \/ c = s[1]) /\ RegexStar(c, re, Tail(s)))

RegexValid(re) == re = <<>> \/ Head(re) # "*"
RegexSearch(re, s) ==
    \E i \in 0..Len(s) : RegexHere(re, SubSeq(s, i + 1, Len(s)))

\* smart case: the search ignores case unless the pattern has an upper-case
\* character
FdPatternMatches(pattern, name) ==
    IF Lower(pattern) = pattern
    THEN RegexSearch(pattern, Lower(name))
    ELSE RegexSearch(pattern, name)

\* name ends with "." and the extension, compared without case
FdExtensionMatches(name, ext) ==
    LET want == <<".">> \o Lower(ext)
    IN  /\ Len(name) > Len(want)
        /\ SubSeq(Lower(name), Len(name) - Len(want) + 1, Len(name)) = want

\* the fd program run in directory cwd: exit status and the lines of its
\* stdout, paths relative to cwd
FdRun(cmd, cwd, listing) ==
    LET Rel(e) == SubSeq(e.path, Len(cwd) + 1, Len(e.path))
        Hidden(e) ==
            \E i \in 1..Len(Rel(e)) : StartsWith(Rel(e)[i], <<".">>)
        Keep(e) ==
            /\ IsBelow(e.path, cwd)
            /\ (IsSet(cmd.max_depth) => Len(Rel(e)) <= Val(cmd.max_depth))
            /\ ~e.is_dir
            /\ (cmd.hidden \/ ~Hidden(e))
            /\ (cmd.extension # <<>> =>
                   \E i \in 1..Len(cmd.extension) :
                       FdExtensionMatches(PathName(e.path), cmd.extension[i]))
            /\ (IsSet(cmd.size_min) => e.size >= Val(cmd.size_min).n)
            /\ (IsSet(cmd.size_max) => e.size <= Val(cmd.size_max).n)
            /\ FdPatternMatches(cmd.pattern, PathName(e.path))
        kept == SelectSeq(listing, Keep)
    IN  IF RegexValid(cmd.pattern)
        THEN [returncode |-> 0, stdout |-> [i \in 1..Len(kept) |-> Rel(kept[i])]]
        ELSE [returncode |-> 1, stdout |-> <<>>]

\* FdBackend.search once subprocess.run has returned: every line of stdout
\* is yielded as query.path / line
FdBackend_search(q, run) ==
    [i \in 1..Len(run.stdout) |-> PathJoin(q.path, run.stdout[i])]

----------------------------------------------------------------------------
(* Backends: FindBackend *)

\* timedelta.days of (later - earlier): whole days, rounded down
Days(later, earlier) == (later - earlier) \div 86400

\* FindBackend._build_command; the argument list as a record of its tests
FindBackend_build_command(q, now) ==
    [program  |-> "find",
     start    |-> q.path,
     maxdepth |-> IF ~q.recursive THEN Some(1) ELSE None,
     type     |-> "f",
     name     |-> IF Truthy(q.pattern) THEN Some(Val(q.pattern)) ELSE None,
     ext_names |-> [i \in 1..Len(q.extensions) |-> <<"*">> \o q.extensions[i]],
     size_min |-> IF IsSet(q.min_size)
                  THEN Some([sign |-> "+",
                             n |-> IF Val(q.min_size) \div 1024 # 0
                                   THEN Val(q.min_size) \div 1024 ELSE 1,
                             unit |-> "k"])
                  ELSE None,
     size_max |-> IF IsSet(q.max_size)
                  THEN Some([sign |-> "-", n |-> Val(q.max_size) \div 1024,
                             unit |-> "k"])
                  ELSE None,
     mtime    |-> IF IsSet(q.modified_after)
                     /\ Days(now, Val(q.modified_after)) >= 0
                  THEN Some([sign |-> "-",
                             n |-> Days(now, Val(q.modified_after))])
                  ELSE None]

\* size of a file in the 1024-byte blocks find's -size ...k counts: rounded up
KBlocks(size) == (size + 1023) \div 1024

\* the find program: exit status and the lines of its stdout, each the
\* start path followed by the path below it
FindRun(cmd, now, listing) ==
    LET Rel(e) == SubSeq(e.path, Len(cmd.start) + 1, Len(e.path))
        Keep(e) ==
            /\ IsBelow(e.path, cmd.start)
            /\ (IsSet(cmd.maxdepth) => Len(Rel(e)) <= Val(cmd.maxdepth))
            /\ ~e.is_dir
            /\ (IsSet(cmd.name) => fnmatch(PathName(e.path), Val(cmd.name)))
            /\ (cmd.ext_names # <<>> =>
                   \E i \in 1..Len(cmd.ext_names) :
                       fnmatch(PathName(e.path), cmd.ext_names[i]))
            /\ (IsSet(cmd.size_min) => KBlocks(e.size) > Val(cmd.size_min).n)
            /\ (IsSet(cmd.size_max) => KBlocks(e.size) < Val(cmd.size_max).n)
            /\ (IsSet(cmd.mtime) => Days(now, e.mtime) < Val(cmd.mtime).n)
        kept == SelectSeq(listing, Keep)
    IN  [returncode |-> 0, stdout |-> [i \in 1..Len(kept) |-> kept[i].path]]

\* FindBackend.search once subprocess.run has returned: Path(line) for
\* every line of stdout
FindBackend_search(q, run) == run.stdout

----------------------------------------------------------------------------
(* Backends: EverythingBackend *)

\* EverythingBackend._build_command; the argument list as a record: the
\* -size-min / -size-max options and the terms of the search string
EverythingBackend_build_command(q) ==
    [program  |-> "es",
     size_min |-> q.min_size,
     size_max |-> q.max_size,
     path     |-> PathStr(q.path),
     ext      |-> [i \in 1..Len(q.extensions) |-> LStripDot(q.extensions[i])],
     pattern  |-> IF Truthy(q.pattern) THEN Some(Val(q.pattern)) ELSE None]

\* a search term of Everything: with a wildcard it has to match the whole
\* name, without one it has to occur in the name; case is ignored
EverythingTermMatches(term, name) ==
    IF \E i \in 1..Len(term) : term[i] \in {"*", "?"}
    THEN fnmatch(Lower(name), Lower(term))
    ELSE Contains(Lower(name), Lower(term))

\* the es program: its index covers the whole volume, files and folders;
\* path: keeps the entries whose full path contains the given text, and no
\* term of the command limits the depth below it
EverythingRun(cmd, listing) ==
    LET Keep(e) ==
            /\ Contains(Lower(PathStr(e.path)), Lower(cmd.path))
            /\ (cmd.ext # <<>> =>
                   /\ ~e.is_dir
                   /\ \E i \in 1..Len(cmd.ext) :
                          Lower(LStripDot(PathSuffix(e.path))) = Lower(cmd.ext[i]))
            /\ (IsSet(cmd.pattern) =>
                   EverythingTermMatches(Val(cmd.pattern), PathName(e.path)))
            /\ (IsSet(cmd.size_min) =>
                   ~e.is_dir /\ e.size >= Val(cmd.size_min))
            /\ (IsSet(cmd.size_max) =>
                   ~e.is_dir /\ e.size <= Val(cmd.size_max))
        kept == SelectSeq(listing, Keep)
    IN  [returncode |-> 0, stdout |-> [i \in 1..Len(kept) |-> kept[i].path]]

\* EverythingBackend.search once subprocess.run has returned: the lines of
\* stdout whose text starts with str(query.path)
EverythingBackend_search(q, run) ==
    LET Inside(path) == StartsWith(PathStr(path), PathStr(q.path))
    IN  SelectSeq(run.stdout, Inside)

----------------------------------------------------------------------------
(* Backend registry and the adapters' subprocess.run *)

\* keys of BACKENDS
BACKENDS == {"python", "fd", "find", "everything"}
ExternalBackends == {"fd", "find", "everything"}

\* what the tool prints and returns when it runs to its end
ToolRun(b, q, listing) ==
    CASE b = "fd"   -> FdRun(FdBackend_build_command(q), q.path, listing)
      [] b = "find" -> FindRun(FindBackend_build_command(q, Now), Now, listing)
      [] b = "everything" ->
            EverythingRun(EverythingBackend_build_command(q), listing)

\* The outcomes of subprocess.run(cmd, capture_output=True, text=True,
\* timeout=...) in an adapter's search:
\*   completed - a CompletedProcess; its returncode is the tool's, or 1 when
\*               the tool met an error on the way (an unreadable directory)
\*               and still printed what it found;
\*   timeout   - subprocess.TimeoutExpired is raised;
\*   oserror   - the program cannot be spawned (missing, not executable):
\*               FileNotFoundError / PermissionError, which are OSError and
\*               not subprocess.SubprocessError.
SubprocessOutcomes(b, q) ==
    { [status |-> "completed", returncode |-> ToolRun(b, q, l).returncode,
       stdout |-> ToolRun(b, q, l).stdout] : l \in ListingOrders }
    \cup
    { [status |-> "completed", returncode |-> 1,
       stdout |-> ToolRun(b, q, l).stdout] : l \in ListingOrders }
    \cup
    { [status |-> "timeout", returncode |-> 0, stdout |-> <<>>],
      [status |-> "oserror", returncode |-> 0, stdout |-> <<>>] }

\* The listing orders a repeated run of backend b may meet on the unchanged
\* tree after a run that met `listing`.  fd walks the directories with a
\* pool of threads and prints the entries as the threads deliver them, and
\* the command built for it asks for neither a single thread nor a sorted
\* output: two runs may print the same lines in different orders.  The
\* other backends read the directories (or the index) sequentially, and an
\* unchanged tree is listed the same way again.
RepeatListings(b, listing) ==
    IF b = "fd" THEN ListingOrders ELSE {listing}

NoTool == [status |-> "none", returncode |-> 0, stdout |-> <<>>]
\* no tool was run and the walk of PythonBackend ended early on a
\* PermissionError
WalkDenied == [status |-> "denied", returncode |-> 0, stdout |-> <<>>]

\* The body of an adapter's search around subprocess.run: the candidates it
\* yields and the exception that leaves the generator ("" when none).
\* except subprocess.TimeoutExpired / subprocess.SubprocessError log and
\* end the generator; returncode is never looked at.
AdapterSearch(b, q, run) ==
    CASE run.status = "timeout" -> [yields |-> <<>>, raises |-> ""]
      [] run.status = "oserror" -> [yields |-> <<>>, raises |-> "OSError"]
      [] run.status = "completed" ->
            [yields |-> CASE b = "fd" -> FdBackend_search(q, run)
                          [] b = "find" -> FindBackend_search(q, run)
                          [] b = "everything" -> EverythingBackend_search(q, run),
             raises |-> ""]

----------------------------------------------------------------------------
(* Backend selector *)

Platforms   == {"Windows", "Linux", "Darwin"}
Programs    == {"fd", "fd.exe", "fdfind", "find", "es"}
\* C:\Program Files\Everything\es.exe, C:\Program Files (x86)\Everything\es.exe
CommonPaths == {"ProgramFiles", "ProgramFilesX86"}

\* what the probes of the machine answer: platform.system(), the names
\* shutil.which resolves, the common installation paths that exist
Envs == [platform : Platforms, which : SUBSET Programs,
         exists : SUBSET CommonPaths]

Preferences == {"auto", "python", "fd", "find", "everything", "ripgrep"}

\* PythonBackend / FdBackend / FindBackend / EverythingBackend .is_available
is_available(b, e) ==
    CASE b = "python" -> TRUE
      [] b = "fd" -> \E name \in {"fd", "fd.exe", "fdfind"} : name \in e.which
      [] b = "find" -> IF e.platform = "Windows" THEN FALSE
                       ELSE "find" \in e.which
      [] b = "everything" ->
            IF e.platform # "Windows" THEN FALSE
            ELSE IF "es" \in e.which THEN TRUE
            ELSE \E p \in CommonPaths : p \in e.exists

\* a priority list that tries the in-process walker first
get_available_backends_python_first(e) ==
    LET priority == <<"python", "fd", "everything", "find">>
        Avail(b) == is_available(b, e)
    IN  SelectSeq(priority, Avail)

\* get_available_backends
get_available_backends(e) ==
    LET priority == <<"fd", "everything", "find", "python">>
        Avail(b) == is_available(b, e)
    IN  SelectSeq(priority, Avail)

\* select_backend without the `preference in BACKENDS` test: the registry
\* lookup of an unregistered name raises KeyError
select_backend_unchecked(pref, e) ==
    IF pref # "auto" /\ pref \notin BACKENDS
    THEN [backend |-> "", raises |-> "KeyError"]
    ELSE IF pref # "auto" /\ is_available(pref, e)
    THEN [backend |-> pref, raises |-> ""]
    ELSE IF get_available_backends(e) # <<>>
    THEN [backend |-> get_available_backends(e)[1], raises |-> ""]
    ELSE [backend |-> "python", raises |-> ""]

\* select_backend that never looks at the preference: always the automatic
\* selection
select_backend_always_auto(pref, e) ==
    IF get_available_backends(e) # <<>>
    THEN [backend |-> get_available_backends(e)[1], raises |-> ""]
    ELSE [backend |-> "python", raises |-> ""]

\* select_backend: the backend that is instantiated and the exception that
\* leaves the call ("" when none)
select_backend(pref, e) ==
    IF pref # "auto" /\ pref \in BACKENDS /\ is_available(pref, e)
    THEN [backend |-> pref, raises |-> ""]
    ELSE IF get_available_backends(e) # <<>>
    THEN [backend |-> get_available_backends(e)[1], raises |-> ""]
    ELSE [backend |-> "python", raises |-> ""]

----------------------------------------------------------------------------
(* Search executor (nl_find/core/executor.py) *)

\* the path validation without its is_dir test
validate_exists_only(q) ==
    IF ~PathExists(q.path) THEN "InvalidPathError" ELSE ""

\* execute, lines 56-60: the exception the path validation raises, "" when
\* the base path is an existing directory
SearchExecutor_validate(q) ==
    IF ~PathExists(q.path) THEN "InvalidPathError"
    ELSE IF ~PathIsDir(q.path) THEN "InvalidPathError"
    ELSE ""

\* The read failures one candidate can meet after the backend yielded it:
\*   perm      - path.is_dir() raises PermissionError (EACCES is not among
\*               the errors is_dir ignores);
\*   gone      - the file no longer exists: is_dir() is False, stat() raises;
\*   stat      - stat() raises OSError although is_dir() answered;
\*   read      - read_text raises OSError;
\*   from_path - the file vanishes between passing the filter and
\*               FileInfo.from_path, whose stat() raises.
Faults == {"none", "perm", "gone", "stat", "read", "from_path"}

\* SearchExecutor._content_matches
SearchExecutor_content_matches(path, pattern, fault) ==
    IF fault = "read" THEN FALSE
    ELSE Contains(Lower(Entry(path).text), Lower(pattern))

\* a post-filter that re-checks the content pattern only and trusts the
\* backend for every other constraint
post_filter_content_only(path, q, fault) ==
    IF Truthy(q.content_pattern)
       /\ ~SearchExecutor_content_matches(path, Val(q.content_pattern), fault)
    THEN [returns |-> FALSE, raises |-> "", read |-> TRUE,
          hit |-> fault = "read"]
    ELSE [returns |-> TRUE, raises |-> "",
          read |-> Truthy(q.content_pattern), hit |-> FALSE]

\* a post-filter that runs the content check ahead of the name and stat
\* checks
post_filter_content_first(path, q, fault) ==
    LET No(rd, h) == [returns |-> FALSE, raises |-> "", read |-> rd,
                      hit |-> h]
        gone == fault = "gone"
        rd   == Truthy(q.content_pattern)
    IN  IF fault = "perm"
        THEN [returns |-> FALSE, raises |-> "PermissionError",
              read |-> FALSE, hit |-> TRUE]
        ELSE IF ~gone /\ Entry(path).is_dir THEN No(FALSE, FALSE)
        ELSE IF rd /\ (gone \/ ~SearchExecutor_content_matches(
                                    path, Val(q.content_pattern), fault))
             THEN No(TRUE, gone \/ fault = "read")
        ELSE IF ~q.include_hidden /\ StartsWith(PathName(path), <<".">>)
             THEN No(rd, FALSE)
        ELSE IF Truthy(q.pattern) /\ ~fnmatch(PathName(path), Val(q.pattern))
             THEN No(rd, FALSE)
        ELSE IF q.extensions # <<>> /\ ~SuffixIn(path, q.extensions)
             THEN No(rd, FALSE)
        ELSE IF fault = "stat" THEN No(rd, TRUE)
        ELSE IF ~StatBoundsOk(Entry(path), q) THEN No(rd, FALSE)
        ELSE [returns |-> TRUE, raises |-> "", read |-> rd, hit |-> FALSE]

\* SearchExecutor._post_filter under a fault: the value it returns, the
\* exception that leaves it, whether it read the content (read) and whether
\* the fault took effect (hit)
SearchExecutor_post_filter(path, q, fault) ==
    LET No(rd, h) == [returns |-> FALSE, raises |-> "", read |-> rd,
                      hit |-> h]
        gone == fault = "gone"
    IN  IF fault = "perm"
        THEN [returns |-> FALSE, raises |-> "PermissionError",
              read |-> FALSE, hit |-> TRUE]
        ELSE IF ~gone /\ Entry(path).is_dir THEN No(FALSE, FALSE)
        ELSE IF ~q.include_hidden /\ StartsWith(PathName(path), <<".">>)
             THEN No(FALSE, gone)
        ELSE IF Truthy(q.pattern) /\ ~fnmatch(PathName(path), Val(q.pattern))
             THEN No(FALSE, gone)
        ELSE IF q.extensions # <<>> /\ ~SuffixIn(path, q.extensions)
             THEN No(FALSE, gone)
        ELSE IF gone \/ fault = "stat" THEN No(FALSE, TRUE)
        ELSE IF ~StatBoundsOk(Entry(path), q) THEN No(FALSE, FALSE)
        ELSE IF Truthy(q.content_pattern)
                /\ ~SearchExecutor_content_matches(path, Val(q.content_pattern),
                                                   fault)
             THEN No(TRUE, fault = "read")
        ELSE [returns |-> TRUE, raises |-> "",
              read |-> Truthy(q.content_pattern), hit |-> FALSE]

\* the loop body without its try/except: an exception of the filter or of
\* FileInfo.from_path leaves execute
execute_candidate_uncaught(path, q, fault) ==
    LET f == SearchExecutor_post_filter(path, q, fault)
    IN  IF f.raises # ""
        THEN [append |-> None, raises |-> f.raises, read |-> f.read,
              hit |-> f.hit]
        ELSE IF ~f.returns
        THEN [append |-> None, raises |-> "", read |-> f.read, hit |-> f.hit]
        ELSE IF fault = "from_path"
        THEN [append |-> None, raises |-> "FileNotFoundError",
              read |-> f.read, hit |-> TRUE]
        ELSE [append |-> Some(FileInfoFromPath(path)), raises |-> "",
              read |-> f.read, hit |-> FALSE]

\* execute, lines 68-75: the body of the loop for one candidate.  append is
\* the FileInfo added to files (None when the candidate is dropped), raises
\* the exception that leaves the loop body: OSError and PermissionError are
\* caught, logged and the loop continues.
execute_candidate(path, q, fault) ==
    LET f == SearchExecutor_post_filter(path, q, fault)
    IN  IF f.raises # ""
        THEN [append |-> None, raises |-> "", read |-> f.read, hit |-> f.hit]
        ELSE IF ~f.returns
        THEN [append |-> None, raises |-> "", read |-> f.read, hit |-> f.hit]
        ELSE IF fault = "from_path"
        THEN [append |-> None, raises |-> "", read |-> f.read, hit |-> TRUE]
        ELSE [append |-> Some(FileInfoFromPath(path)), raises |-> "",
              read |-> f.read, hit |-> FALSE]

\* f1's sort key is smaller than f2's: lower-cased name, size or timestamp
KeyLess(f1, f2, sort_by) ==
    CASE sort_by = "size" -> f1.size < f2.size
      [] sort_by = "modified" -> f1.modified < f2.modified
      [] sort_by = "created" -> f1.created < f2.created
      [] OTHER -> StrLess(Lower(f1.name), Lower(f2.name))

\* one step of a stable sort: x goes behind every element that does not
\* have to follow it
RECURSIVE InsertStable(_, _, _, _)
InsertStable(sorted, x, sort_by, reverse) ==
    IF sorted = <<>> THEN <<x>>
    ELSE IF (IF reverse THEN KeyLess(Head(sorted), x, sort_by)
             ELSE KeyLess(x, Head(sorted), sort_by))
    THEN <<x>> \o sorted
    ELSE <<Head(sorted)>> \o InsertStable(Tail(sorted), x, sort_by, reverse)

\* sorted(files, key=key_func, reverse=reverse): stable in both directions
RECURSIVE Sorted(_, _, _)
Sorted(fs, sort_by, reverse) ==
    IF fs = <<>> THEN <<>>
    ELSE InsertStable(Sorted(SubSeq(fs, 1, Len(fs) - 1), sort_by, reverse),
                      fs[Len(fs)], sort_by, reverse)

\* _sort_files that never passes reverse=True
sort_files_ignore_order(fs, p) == Sorted(fs, p.sort_by, FALSE)

\* _sort_files that sorts ascending and reverses the list for "desc"
sort_files_reverse_after(fs, p) ==
    IF p.sort_order = "desc" THEN Reverse(Sorted(fs, p.sort_by, FALSE))
    ELSE Sorted(fs, p.sort_by, FALSE)

\* SearchExecutor._sort_files
SearchExecutor_sort_files(fs, p) ==
    Sorted(fs, p.sort_by, p.sort_order = "desc")

\* the slice s[:n]
SliceTo(s, n) ==
    IF n >= 0 THEN SubSeq(s, 1, IF n < Len(s) THEN n ELSE Len(s))
    ELSE SubSeq(s, 1, IF Len(s) + n > 0 THEN Len(s) + n ELSE 0)

\* the limit applied before the sort
execute_shape_truncate_first(fs, p) ==
    SearchExecutor_sort_files(SliceTo(fs, p.limit), p)

\* the slice taken one element too long
execute_shape_limit_plus_one(fs, p) ==
    SliceTo(SearchExecutor_sort_files(fs, p), p.limit + 1)

\* execute, lines 77-80: sort the whole list, then apply the limit
execute_shape(fs, p) == SliceTo(SearchExecutor_sort_files(fs, p), p.limit)

----------------------------------------------------------------------------
(* The executor as a state machine: SearchExecutor(backend).execute(params) *)

NoEnv == [platform |-> "Linux", which |-> {}, exists |-> {}]

\* the clock stands at Now and no command has been built
InitBuild == clock = Now /\ cmds = <<>>

\* the parser has not been called
InitParser == size_str = <<>> /\ content = <<>> /\ parsed = <<>>

\* MainWindow.__init__: no worker, the search bar enabled
InitGui ==
    /\ search_bar = [enabled |-> TRUE]
    /\ request = <<>>
    /\ workers = <<>>
    /\ search_worker = 0
    /\ signals = <<>>
    /\ shown = 0

Init ==
    /\ backend \in BACKENDS
    /\ params \in AllParams
    /\ pc = "ready"
    /\ stream = <<>>
    /\ yielded = <<>>
    /\ files = <<>>
    /\ result = <<>>
    /\ raised = ""
    /\ tool = NoTool
    /\ searchCalls = 0
    /\ statted = {}
    /\ contentRead = {}
    /\ failed = {}
    /\ env = NoEnv
    /\ preference = "auto"
    /\ InitBuild
    /\ InitParser
    /\ InitGui

\* execute, lines 52-63: validate the base path
Validate ==
    /\ pc = "ready"
    /\ backend \in BACKENDS
    /\ IF SearchExecutor_validate(params.query) # ""
       THEN /\ pc' = "raised"
            /\ raised' = SearchExecutor_validate(params.query)
       ELSE /\ pc' = "search"
            /\ UNCHANGED raised
    /\ UNCHANGED <<backend, params, stream, yielded, files, result, tool,
                   searchCalls, statted, contentRead, failed, env, preference>>
    /\ UNCHANGED <<buildVars, parserVars, guiVars>>

\* execute, line 67: the for statement starts the generator of
\* PythonBackend.search, which walks the tree.  A PermissionError raised
\* inside the walk (path.is_dir() on an entry that may not be stat'ed) is
\* caught around the whole loop, lines 78-79: it is logged and the generator
\* ends, so that only the matches found until then are yielded.
StartPythonSearch ==
    /\ pc = "search"
    /\ backend = "python"
    /\ \E listing \in ListingOrders :
           LET full == PythonBackend_search(params.query, listing)
           IN  \E k \in 0..Len(full) :
                   /\ stream' = SubSeq(full, 1, k)
                   /\ tool' = IF k = Len(full) THEN NoTool ELSE WalkDenied
    /\ searchCalls' = searchCalls + 1
    /\ pc' = "iterate"
    /\ UNCHANGED <<backend, params, yielded, files, result, raised,
                   statted, contentRead, failed, env, preference>>
    /\ UNCHANGED <<buildVars, parserVars, guiVars>>

\* execute, line 67: the for statement starts the generator of an adapter's
\* search, which runs the external tool; an exception the adapter does not
\* catch leaves execute, the for statement being outside the try
StartAdapterSearch ==
    /\ pc = "search"
    /\ backend \in ExternalBackends
    /\ \E run \in SubprocessOutcomes(backend, params.query) :
           LET s == AdapterSearch(backend, params.query, run)
           IN  /\ tool' = run
               /\ stream' = s.yields
               /\ IF s.raises # ""
                  THEN pc' = "raised" /\ raised' = s.raises
                  ELSE pc' = "iterate" /\ UNCHANGED raised
    /\ searchCalls' = searchCalls + 1
    /\ UNCHANGED <<backend, params, yielded, files, result, statted,
                   contentRead, failed, env, preference>>
    /\ UNCHANGED <<buildVars, parserVars, guiVars>>

\* execute, lines 67-75: one pass of the loop over the candidates
Candidate ==
    /\ pc = "iterate"
    /\ backend \in BACKENDS
    /\ stream # <<>>
    /\ \E fault \in Faults :
           LET path == Head(stream)
               r    == execute_candidate(path, params.query, fault)
           IN  /\ fault # "none" =>
                      (Cardinality(failed) < MaxFailures /\ r.hit)
               /\ files' = IF IsSet(r.append)
                           THEN Append(files, Val(r.append)) ELSE files
               /\ failed' = IF r.hit THEN failed \cup {path} ELSE failed
               /\ contentRead' = IF r.read THEN contentRead \cup {path}
                                 ELSE contentRead
               /\ statted' = statted \cup {path}
               /\ yielded' = Append(yielded, path)
               /\ IF r.raises # ""
                  THEN pc' = "raised" /\ raised' = r.raises
                  ELSE pc' = "iterate" /\ UNCHANGED raised
    /\ stream' = Tail(stream)
    /\ UNCHANGED <<backend, params, result, tool, searchCalls, env,
                   preference>>
    /\ UNCHANGED <<buildVars, parserVars, guiVars>>

\* execute, lines 77-90: the generator is exhausted; sort, apply the limit
\* and return the SearchResult
Finish ==
    /\ pc = "iterate"
    /\ backend \in BACKENDS
    /\ stream = <<>>
    /\ result' = execute_shape(files, params)
    /\ pc' = "done"
    /\ UNCHANGED <<backend, params, stream, yielded, files, raised, tool,
                   searchCalls, statted, contentRead, failed, env, preference>>
    /\ UNCHANGED <<buildVars, parserVars, guiVars>>

Next == Validate \/ StartPythonSearch \/ StartAdapterSearch \/ Candidate
            \/ Finish

Spec == Init /\ [][Next]_vars

----------------------------------------------------------------------------
(* The executor that walks the tree itself (src/core/executor.py) *)

\* SearchExecutor._matches_query of src/core/executor.py: the same checks,
\* in the same order, as _post_filter above
Walker_matches_query(path, q, fault) ==
    SearchExecutor_post_filter(path, q, fault)

\* _search_files, lines 82-91, for one path of the walk: the FileInfo it
\* yields (None when the path is skipped) and the exception that leaves the
\* generator.  A failing FileInfo.from_path is logged and skipped; a
\* PermissionError from _matches_query becomes PermissionDeniedError.
Walker_search_files(path, q, fault) ==
    LET m == Walker_matches_query(path, q, fault)
    IN  IF m.raises # ""
        THEN [yields |-> None, raises |-> "PermissionDeniedError",
              read |-> m.read, hit |-> m.hit]
        ELSE IF ~m.returns
        THEN [yields |-> None, raises |-> "", read |-> m.read, hit |-> m.hit]
        ELSE IF fault = "from_path"
        THEN [yields |-> None, raises |-> "", read |-> m.read, hit |-> TRUE]
        ELSE [yields |-> Some(FileInfoFromPath(path)), raises |-> "",
              read |-> m.read, hit |-> FALSE]

\* SearchExecutor._sort_files of src/core/executor.py
Walker_sort_files(fs, p) == Sorted(fs, p.sort_by, p.sort_order = "desc")

InitWalker ==
    /\ backend = "walker"
    /\ params \in AllParams
    /\ pc = "ready"
    /\ stream = <<>>
    /\ yielded = <<>>
    /\ files = <<>>
    /\ result = <<>>
    /\ raised = ""
    /\ tool = NoTool
    /\ searchCalls = 0
    /\ statted = {}
    /\ contentRead = {}
    /\ failed = {}
    /\ env = NoEnv
    /\ preference = "auto"
    /\ InitBuild
    /\ InitParser
    /\ InitGui

\* execute, lines 34-45: validate the base path
WalkerValidate ==
    /\ pc = "ready"
    /\ backend = "walker"
    /\ IF SearchExecutor_validate(params.query) # ""
       THEN /\ pc' = "raised"
            /\ raised' = SearchExecutor_validate(params.query)
       ELSE /\ pc' = "search"
            /\ UNCHANGED raised
    /\ UNCHANGED <<backend, params, stream, yielded, files, result, tool,
                   searchCalls, statted, contentRead, failed, env, preference>>
    /\ UNCHANGED <<buildVars, parserVars, guiVars>>

\* execute, line 49, and _search_files, lines 76-80: the generator starts
\* rglob("*") or glob("*")
WalkerStart ==
    /\ pc = "search"
    /\ backend = "walker"
    /\ \E listing \in ListingOrders :
           stream' = Glob(params.query.path, params.query.recursive, listing)
    /\ searchCalls' = searchCalls + 1
    /\ pc' = "iterate"
    /\ UNCHANGED <<backend, params, yielded, files, result, raised, tool,
                   statted, contentRead, failed, env, preference>>
    /\ UNCHANGED <<buildVars, parserVars, guiVars>>

\* execute, lines 49-52, with _search_files, lines 82-91: the walk advances
\* by one path; a FileInfo that is yielded is appended and the loop is left
\* as soon as len(files) >= params.limit
WalkerStep ==
    /\ pc = "iterate"
    /\ backend = "walker"
    /\ stream # <<>>
    /\ \E fault \in Faults :
           LET path == Head(stream)
               r    == Walker_search_files(path, params.query, fault)
               fs   == IF IsSet(r.yields)
                       THEN Append(files, Val(r.yields)) ELSE files
           IN  /\ fault # "none" =>
                      (Cardinality(failed) < MaxFailures /\ r.hit)
               /\ files' = fs
               /\ failed' = IF r.hit THEN failed \cup {path} ELSE failed
               /\ contentRead' = IF r.read THEN contentRead \cup {path}
                                 ELSE contentRead
               /\ statted' = statted \cup {path}
               /\ yielded' = Append(yielded, path)
               /\ IF r.raises # ""
                  THEN pc' = "raised" /\ raised' = r.raises
                  ELSE /\ UNCHANGED raised
                       /\ pc' = IF IsSet(r.yields) /\ Len(fs) >= params.limit
                                THEN "sort" ELSE "iterate"
    /\ stream' = Tail(stream)
    /\ UNCHANGED <<backend, params, result, tool, searchCalls, env,
                   preference>>
    /\ UNCHANGED <<buildVars, parserVars, guiVars>>

\* execute, lines 54-65: the loop has ended (walk exhausted or break); sort
\* what was collected and return the SearchResult
WalkerFinish ==
    /\ backend = "walker"
    /\ \/ pc = "sort"
       \/ (pc = "iterate" /\ stream = <<>>)
    /\ result' = Walker_sort_files(files, params)
    /\ pc' = "done"
    /\ UNCHANGED <<backend, params, stream, yielded, files, raised, tool,
                   searchCalls, statted, contentRead, failed, env, preference>>
    /\ UNCHANGED <<buildVars, parserVars, guiVars>>

NextWalker == WalkerValidate \/ WalkerStart \/ WalkerStep \/ WalkerFinish

SpecWalker == InitWalker /\ [][NextWalker]_vars

----------------------------------------------------------------------------
(* The backend selector as a state machine: select_backend(preference) *)

InitSelect ==
    /\ env \in Envs
    /\ preference \in Preferences
    /\ pc = "select"
    /\ backend = ""
    /\ params = [query |-> DefaultQuery, sort_by |-> "name",
                 sort_order |-> "asc", limit |-> 0]
    /\ stream = <<>>
    /\ yielded = <<>>
    /\ files = <<>>
    /\ result = <<>>
    /\ raised = ""
    /\ tool = NoTool
    /\ searchCalls = 0
    /\ statted = {}
    /\ contentRead = {}
    /\ failed = {}
    /\ InitBuild
    /\ InitParser
    /\ InitGui

\* select_backend(preference) returns or raises
Select ==
    /\ pc = "select"
    /\ LET s == select_backend(preference, env)
       IN  IF s.raises # ""
           THEN pc' = "raised" /\ raised' = s.raises /\ UNCHANGED backend
           ELSE pc' = "selected" /\ backend' = s.backend /\ UNCHANGED raised
    /\ UNCHANGED <<params, stream, yielded, files, result, tool, searchCalls,
                   statted, contentRead, failed, env, preference>>
    /\ UNCHANGED <<buildVars, parserVars, guiVars>>

NextSelect == Select

SpecSelect == InitSelect /\ [][NextSelect]_vars

----------------------------------------------------------------------------
(* The command builders as a state machine: adapter._build_command(query),
   called while time passes *)

HalfDay == 43200

\* FdBackend / FindBackend / EverythingBackend ._build_command(q), called
\* when datetime.now() is t
Adapter_build_command(b, q, t) ==
    CASE b = "fd" -> FdBackend_build_command(q)
      [] b = "find" -> FindBackend_build_command(q, t)
      [] b = "everything" -> EverythingBackend_build_command(q)

\* the idle values of the search execution
ExecIdle ==
    /\ stream = <<>>
    /\ yielded = <<>>
    /\ files = <<>>
    /\ result = <<>>
    /\ raised = ""
    /\ tool = NoTool
    /\ searchCalls = 0
    /\ statted = {}
    /\ contentRead = {}
    /\ failed = {}
    /\ env = NoEnv
    /\ preference = "auto"

InitBuilders ==
    /\ backend \in ExternalBackends
    /\ params \in AllParams
    /\ pc = "build"
    /\ ExecIdle
    /\ InitBuild
    /\ InitParser
    /\ InitGui

\* time passes
Tick ==
    /\ pc = "build"
    /\ clock < Now + MaxTicks * HalfDay
    /\ clock' = clock + HalfDay
    /\ UNCHANGED <<execVars, cmds, parserVars, guiVars>>

\* one call of _build_command: no process is spawned, the argument list is
\* returned
BuildCommand ==
    /\ pc = "build"
    /\ Len(cmds) < MaxCalls
    /\ cmds' = Append(cmds, Adapter_build_command(backend, params.query,
                                                  clock))
    /\ UNCHANGED <<execVars, clock, parserVars, guiVars>>

NextBuilders == Tick \/ BuildCommand

SpecBuilders == InitBuilders /\ [][NextBuilders]_vars

----------------------------------------------------------------------------
(* LLM parser (src/core/llm_parser.py): _parse_size *)

\* str.upper on one character
UpperChar(c) ==
    CASE c = "b" -> "B" [] c = "k" -> "K" [] c = "m" -> "M" [] c = "g" -> "G"
      [] c = "t" -> "T"
      [] OTHER -> c

\* str.upper
Upper(s) == [i \in 1..Len(s) |-> UpperChar(s[i])]

\* str.strip: leading and trailing blanks are removed
RECURSIVE LStrip(_)
LStrip(s) == IF s # <<>> /\ Head(s) = " " THEN LStrip(Tail(s)) ELSE s
Strip(s) == Reverse(LStrip(Reverse(LStrip(s))))

\* str.endswith
EndsWith(s, suffix) ==
    /\ Len(suffix) <= Len(s)
    /\ SubSeq(s, Len(s) - Len(suffix) + 1, Len(s)) = suffix

DigitChars == {"0", "1", "2", "3", "4", "5", "6", "7", "8", "9"}
DigitVal(c) ==
    CASE c = "0" -> 0 [] c = "1" -> 1 [] c = "2" -> 2 [] c = "3" -> 3
      [] c = "4" -> 4 [] c = "5" -> 5 [] c = "6" -> 6 [] c = "7" -> 7
      [] c = "8" -> 8 [] c = "9" -> 9

IsDigits(s) == \A i \in 1..Len(s) : s[i] \in DigitChars

\* value of a run of decimal digits
RECURSIVE DigitsVal(_)
DigitsVal(s) ==
    IF s = <<>> THEN 0
    ELSE 10 * DigitsVal(SubSeq(s, 1, Len(s) - 1)) + DigitVal(s[Len(s)])

RECURSIVE Pow10(_)
Pow10(n) == IF n = 0 THEN 1 ELSE 10 * Pow10(n - 1)

\* int(s) for a string without sign, blanks or underscores: digits only,
\* anything else is a ValueError
PyInt(s) ==
    IF s # <<>> /\ IsDigits(s) THEN [ok |-> TRUE, n |-> DigitsVal(s)]
    ELSE [ok |-> FALSE, n |-> 0]

\* float(s) for a string without sign or exponent: digits with at most one
\* ".", at least one digit; the value is num / den.  Anything else is a
\* ValueError.
PyFloat(s) ==
    LET dots == {i \in 1..Len(s) : s[i] = "."}
        d    == IF dots = {} THEN Len(s) + 1 ELSE CHOOSE i \in dots : TRUE
        ip   == SubSeq(s, 1, d - 1)
        fp   == SubSeq(s, d + 1, Len(s))
    IN  IF Cardinality(dots) <= 1 /\ IsDigits(ip) /\ IsDigits(fp)
           /\ Len(ip) + Len(fp) > 0
        THEN [ok |-> TRUE, num |-> DigitsVal(ip) * Pow10(Len(fp)) + DigitsVal(fp),
              den |-> Pow10(Len(fp))]
        ELSE [ok |-> FALSE, num |-> 0, den |-> 1]

\* the units of _parse_size in the order the dict is iterated, with their
\* multipliers as powers of 1024
Units ==
    << [unit |-> <<"B">>, exp |-> 0], [unit |-> <<"K", "B">>, exp |-> 1],
       [unit |-> <<"M", "B">>, exp |-> 2], [unit |-> <<"G", "B">>, exp |-> 3],
       [unit |-> <<"T", "B">>, exp |-> 4] >>

\* int(f * 1024^exp) for f = num / den >= 0.  A byte count is kept as
\* mant * 1024^exp, so that the terabyte values stay within the integers
\* of the checker; the product is exact for the numbers of the model
\* (integers and halves).
IntTimes(f, exp) ==
    IF f.den = 1 THEN [mant |-> f.num, exp |-> exp]
    ELSE IF exp = 0 THEN [mant |-> f.num \div f.den, exp |-> 0]
    ELSE [mant |-> (f.num * 1024) \div f.den, exp |-> exp - 1]

\* _parse_size: the first unit of the dict the upper-cased text ends with
\* decides; the value it returns and the exception that leaves it
parse_size(text) ==
    LET u    == Upper(Strip(text))
        hits == {i \in 1..Len(Units) : EndsWith(u, Units[i].unit)}
    IN  IF hits # {}
        THEN LET k == CHOOSE i \in hits : \A j \in hits : i <= j
                 f == PyFloat(Strip(SubSeq(u, 1, Len(u) - Len(Units[k].unit))))
             IN  IF f.ok
                 THEN [returns |-> Some(IntTimes(f, Units[k].exp)), raises |-> ""]
                 ELSE [returns |-> None, raises |-> "ValueError"]
        ELSE IF PyInt(u).ok
        THEN [returns |-> Some([mant |-> PyInt(u).n, exp |-> 0]), raises |-> ""]
        ELSE [returns |-> None, raises |-> "ValueError"]

\* the size strings the model hands to _parse_size: a number, a unit in
\* upper or lower case or none, bare or surrounded by blanks
SizeNumbers ==
    { <<"0">>, <<"1">>, <<"1", "0">>, <<"1", ".", "5">>,
      <<"1", "0", "2", "4">> }
SizeUnits ==
    { <<>>, <<"B">>, <<"K", "B">>, <<"M", "B">>, <<"G", "B">>, <<"T", "B">>,
      <<"b">>, <<"k", "b">>, <<"m", "b">>, <<"g", "b">>, <<"t", "b">> }
SizeLayouts == {"bare", "blanks"}
SizeString(n, u, l) ==
    IF l = "blanks" THEN <<" ">> \o n \o u \o <<" ", " ">> ELSE n \o u
SizeStrings ==
    {SizeString(n, u, l) : n \in SizeNumbers, u \in SizeUnits,
                           l \in SizeLayouts}

----------------------------------------------------------------------------
(* LLM parser: LLMParser.parse *)

\* The text of message.content is a sequence of lines; a line is a fence
\* or one JSON text of the table below.  <fence> stands for the three
\* backquotes of a code fence and [..] for a JSON string.
FenceLines == {"<fence>", "<fence>json"}
JsonLines ==
    {"{}", "{min_size:1024}", "{min_size:[10MB]}", "{max_size:[ 1 kb ]}",
     "{max_size:[100]}", "{recursive:[maybe]}", "[1]", "5", "null", "[hi]",
     "hello", "<fence>{}<fence>"}

\* str.startswith / str.endswith with the code fence, on a line
LineStartsWithFence(line) == line \in {"<fence>", "<fence>json", "<fence>{}<fence>"}
LineEndsWithFence(line) == line \in {"<fence>", "<fence>{}<fence>"}

\* json.loads on the lines that are left: one line holding one JSON text
\* decodes to its value, anything else is a JSONDecodeError
json_loads(lines) ==
    LET Obj(fs) == [ok |-> TRUE, type |-> "object", fields |-> fs]
        Other(t) == [ok |-> TRUE, type |-> t, fields |-> <<>>]
        Num(n) == [type |-> "number", n |-> n, s |-> <<>>]
        Str(t) == [type |-> "string", n |-> 0, s |-> t]
        line == lines[1]
    IN  IF Len(lines) # 1 THEN [ok |-> FALSE, type |-> "", fields |-> <<>>]
        ELSE CASE line = "{}" -> Obj(<<>>)
               [] line = "{min_size:1024}" ->
                      Obj(<< <<"min_size", Num(1024)>> >>)
               [] line = "{min_size:[10MB]}" ->
                      Obj(<< <<"min_size", Str(<<"1", "0", "M", "B">>)>> >>)
               [] line = "{max_size:[ 1 kb ]}" ->
                      Obj(<< <<"max_size",
                               Str(<<" ", "1", " ", "k", "b", " ">>)>> >>)
               [] line = "{max_size:[100]}" ->
                      Obj(<< <<"max_size", Str(<<"1", "0", "0">>)>> >>)
               [] line = "{recursive:[maybe]}" ->
                      Obj(<< <<"recursive", Str(<<"m", "a", "y", "b", "e">>)>> >>)
               [] line = "[1]" -> Other("array")
               [] line = "5" -> Other("number")
               [] line = "null" -> Other("null")
               [] line = "[hi]" -> Other("string")
               [] OTHER -> [ok |-> FALSE, type |-> "", fields |-> <<>>]

\* LLMParser._preprocess_llm_data: `key in data` is a TypeError on a
\* number or null, False on a list or on a string that does not hold the
\* key; a size given as a string goes through _parse_size, whose
\* ValueError is not caught
LLMParser_preprocess_llm_data(data) ==
    IF data.type \in {"number", "null"}
    THEN [data |-> data, raises |-> "TypeError"]
    ELSE IF data.type # "object" THEN [data |-> data, raises |-> ""]
    ELSE LET IsSize(i) ==
                 /\ data.fields[i][1] \in {"min_size", "max_size"}
                 /\ data.fields[i][2].type = "string"
             bad == \E i \in 1..Len(data.fields) :
                        IsSize(i) /\ parse_size(data.fields[i][2].s).raises # ""
             Conv(i) ==
                 IF IsSize(i)
                 THEN <<data.fields[i][1],
                        [type |-> "bytes",
                         n |-> Val(parse_size(data.fields[i][2].s).returns),
                         s |-> <<>>]>>
                 ELSE data.fields[i]
         IN  IF bad THEN [data |-> data, raises |-> "ValueError"]
             ELSE [data |-> [data EXCEPT !.fields =
                                [i \in 1..Len(data.fields) |-> Conv(i)]],
                   raises |-> ""]

\* SearchQuery(**data): a list, a string (or anything that is not a
\* mapping) is a TypeError, a field of the wrong type a ValidationError;
\* otherwise the fields given replace the defaults
SearchQuery_construct(data) ==
    IF data.type # "object" THEN [ok |-> FALSE, fields |-> <<>>]
    ELSE IF \E i \in 1..Len(data.fields) :
                data.fields[i][1] = "recursive"
                /\ data.fields[i][2].type = "string"
    THEN [ok |-> FALSE, fields |-> <<>>]
    ELSE [ok |-> TRUE,
          fields |-> [i \in 1..Len(data.fields) |->
                         <<data.fields[i][1], data.fields[i][2].n>>]]

\* LLMParser.parse on the answer of the service: what it returns and the
\* exception that leaves it
LLMParser_parse(answer) ==
    LET Raise(e) == [returns |-> None, raises |-> e]
        c0 == Val(answer.content)
        \* content.split("\n", 1)[1]: IndexError when there is one line only
        c1 == IF c0 # <<>> /\ LineStartsWithFence(c0[1]) THEN Tail(c0) ELSE c0
        \* content.rsplit("\n", 1)[0]: a single line is kept whole
        c2 == IF c1 # <<>> /\ LineEndsWithFence(c1[Len(c1)]) /\ Len(c1) > 1
              THEN SubSeq(c1, 1, Len(c1) - 1) ELSE c1
        js == json_loads(c2)
        pp == LLMParser_preprocess_llm_data(js)
        sq == SearchQuery_construct(pp.data)
    IN  IF answer.status = "failed" THEN Raise("LLMConnectionError")
        ELSE IF ~IsSet(answer.content) \/ c0 = <<>>
             THEN Raise("LLMResponseError")
        ELSE IF LineStartsWithFence(c0[1]) /\ Len(c0) = 1
             THEN Raise("IndexError")
        ELSE IF ~js.ok THEN Raise("LLMParseError")
        ELSE IF pp.raises # "" THEN Raise(pp.raises)
        ELSE IF ~sq.ok THEN Raise("LLMParseError")
        ELSE [returns |-> Some(sq.fields), raises |-> ""]

\* what client.chat.completions.create may answer: a failure of the call,
\* a message without content, or a text of up to three lines, with or
\* without fences around one JSON text
Answers ==
    { [status |-> "failed", content |-> None],
      [status |-> "ok", content |-> None],
      [status |-> "ok", content |-> Some(<<>>)] }
    \cup
    { [status |-> "ok", content |-> Some(open \o <<body>> \o close)] :
        open \in {<<>>} \cup {<<f>> : f \in FenceLines},
        body \in JsonLines \cup {"<fence>"},
        close \in {<<>>, <<"<fence>">>} }

----------------------------------------------------------------------------
(* The parser as a state machine: _parse_size(size_str) and
   LLMParser.parse(query) *)

InitParserSpec ==
    /\ backend = ""
    /\ params = DefaultParams
    /\ ExecIdle
    /\ InitBuild
    /\ InitGui
    /\ parsed = <<>>
    /\ \/ /\ pc = "parse_size"
          /\ size_str \in SizeStrings
          /\ content = <<>>
       \/ /\ pc = "parse"
          /\ size_str = <<>>
          /\ content \in {<<a>> : a \in Answers}

\* _parse_size(size_str) returns or raises
ParseSize ==
    /\ pc = "parse_size"
    /\ LET r == parse_size(size_str)
       IN  /\ parsed' = r.returns
           /\ raised' = r.raises
           /\ pc' = IF r.raises # "" THEN "raised" ELSE "returned"
    /\ UNCHANGED <<backend, params, stream, yielded, files, result, tool,
                   searchCalls, statted, contentRead, failed, env, preference,
                   buildVars, size_str, content, guiVars>>

\* LLMParser.parse(query) returns or raises
Parse ==
    /\ pc = "parse"
    /\ LET r == LLMParser_parse(content[1])
       IN  /\ parsed' = r.returns
           /\ raised' = r.raises
           /\ pc' = IF r.raises # "" THEN "raised" ELSE "returned"
    /\ UNCHANGED <<backend, params, stream, yielded, files, result, tool,
                   searchCalls, statted, contentRead, failed, env, preference,
                   buildVars, size_str, content, guiVars>>

NextParser == ParseSize \/ Parse

SpecParser == InitParserSpec /\ [][NextParser]_vars

----------------------------------------------------------------------------
(* GUI (nl_find/gui/main_window.py, nl_find/gui/widgets/search_bar.py) *)

\* set_loading that leaves the input and the button enabled
set_loading_never_disables(loading) == [enabled |-> TRUE]

\* SearchBar.set_loading: search_btn and search_input are enabled exactly
\* when no search is in progress
SearchBar_set_loading(loading) == [enabled |-> ~loading]

\* MainWindow._on_search_finished: the search bar it leaves behind
MainWindow_on_search_finished(bar) == SearchBar_set_loading(FALSE)

\* _on_search_error without its set_loading(False)
on_search_error_keeps_loading(bar) == bar

\* MainWindow._on_search_error: the search bar it leaves behind
MainWindow_on_search_error(bar) == SearchBar_set_loading(FALSE)

\* the texts the user may have typed: nothing, a blank, a pattern
QueryTexts == {<<>>, <<" ">>, <<"a", "*">>}

\* `not query_text.strip()`
IsBlank(text) == Strip(text) = <<>>

InitGuiSpec ==
    /\ backend = ""
    /\ params = DefaultParams
    /\ pc = "gui"
    /\ ExecIdle
    /\ InitBuild
    /\ InitParser
    /\ InitGui

\* The user presses return in search_input or clicks search_btn, which only
\* an enabled widget reports: SearchBar._on_search emits search_requested
\* and MainWindow._on_search runs, lines 125-137: a blank text returns at
\* once; otherwise the bar is put into the loading state and, for use_llm,
\* the GUI thread goes into LLMParser.parse; without LLM the handler goes
\* on to start the worker, lines 147-162.
OnSearch ==
    /\ pc = "gui"
    /\ search_bar.enabled
    /\ \A i \in 1..Len(request) : request[i].stage # "parsing"
    /\ \E text \in QueryTexts, use_llm \in BOOLEAN :
           IF IsBlank(text)
           THEN /\ request' = <<[text |-> text, use_llm |-> use_llm,
                                 stage |-> "ignored"]>>
                /\ UNCHANGED <<search_bar, workers, search_worker>>
           ELSE IF use_llm
           THEN /\ request' = <<[text |-> text, use_llm |-> use_llm,
                                 stage |-> "parsing"]>>
                /\ search_bar' = SearchBar_set_loading(TRUE)
                /\ UNCHANGED <<workers, search_worker>>
           ELSE /\ Len(workers) < MaxSearches
                /\ request' = <<[text |-> text, use_llm |-> use_llm,
                                 stage |-> "started"]>>
                /\ search_bar' = SearchBar_set_loading(TRUE)
                /\ workers' = Append(workers, [state |-> "running",
                                               emitted |-> <<>>])
                /\ search_worker' = Len(workers) + 1
    /\ UNCHANGED <<execVars, buildVars, parserVars, signals, shown>>

\* MainWindow._on_search, lines 139-162, once LLMParser.parse has returned
\* or raised: on any exception the warning is shown, set_loading(False) is
\* called and the handler returns; otherwise the worker is created and
\* started
OnSearchParsed ==
    /\ pc = "gui"
    /\ request # <<>>
    /\ request[1].stage = "parsing"
    /\ \/ /\ request' = <<[request[1] EXCEPT !.stage = "llm_failed"]>>
          /\ search_bar' = SearchBar_set_loading(FALSE)
          /\ UNCHANGED <<workers, search_worker>>
       \/ /\ Len(workers) < MaxSearches
          /\ request' = <<[request[1] EXCEPT !.stage = "started"]>>
          /\ workers' = Append(workers, [state |-> "running",
                                         emitted |-> <<>>])
          /\ search_worker' = Len(workers) + 1
          /\ UNCHANGED search_bar
    /\ UNCHANGED <<execVars, buildVars, parserVars, signals, shown>>

\* SearchWorker.run, lines 37-45, in the worker thread: execute returns and
\* finished is emitted, or an exception is caught and error is emitted; the
\* signal is queued for the GUI thread
WorkerRun ==
    /\ pc = "gui"
    /\ \E i \in 1..Len(workers), kind \in {"finished", "error"} :
           /\ workers[i].state = "running"
           /\ workers' = [workers EXCEPT ![i] =
                             [state |-> "emitted", emitted |-> <<kind>>]]
           /\ signals' = Append(signals, [worker |-> i, kind |-> kind])
    /\ UNCHANGED <<execVars, buildVars, parserVars, search_bar, request,
                   search_worker, shown>>

\* the event loop of the GUI thread delivers the next queued signal:
\* MainWindow._on_search_finished or MainWindow._on_search_error
Deliver ==
    /\ pc = "gui"
    /\ signals # <<>>
    /\ \A i \in 1..Len(request) : request[i].stage # "parsing"
    /\ LET sig == Head(signals)
       IN  /\ search_bar' = IF sig.kind = "finished"
                             THEN MainWindow_on_search_finished(search_bar)
                             ELSE MainWindow_on_search_error(search_bar)
           /\ shown' = sig.worker
           /\ workers' = [workers EXCEPT ![sig.worker].state = "handled"]
    /\ signals' = Tail(signals)
    /\ UNCHANGED <<execVars, buildVars, parserVars, request, search_worker>>

NextGui == OnSearch \/ OnSearchParsed \/ WorkerRun \/ Deliver

SpecGui == InitGuiSpec /\ [][NextGui]_vars

\* The worker thread is scheduled and execute ends (the walk is finite, the
\* tools run under a timeout); LLMParser.parse returns or raises; the event
\* loop delivers every queued signal.
SpecGuiLive ==
    /\ InitGuiSpec
    /\ [][NextGui]_vars
    /\ WF_vars(OnSearchParsed)
    /\ WF_vars(WorkerRun)
    /\ WF_vars(Deliver)

----------------------------------------------------------------------------
(* What the claims speak about *)

Range(s) == {s[i] : i \in 1..Len(s)}

\* FileInfo f is a non-directory that meets every constraint set in q,
\* judged on the record and on the content of the file in the tree
Satisfies(f, q) ==
    /\ ~f.is_dir
    /\ ~Entry(f.path).is_dir
    /\ (q.include_hidden \/ Head(f.name) # ".")
    /\ (IsSet(q.pattern) => fnmatch(f.name, Val(q.pattern)))
    /\ (q.extensions # <<>> =>
           \E e \in Range(q.extensions) : Lower(f.extension) = Lower(e))
    /\ (IsSet(q.min_size) => f.size >= Val(q.min_size))
    /\ (IsSet(q.max_size) => f.size <= Val(q.max_size))
    /\ (IsSet(q.modified_after) => f.modified >= Val(q.modified_after))
    /\ (IsSet(q.modified_before) => f.modified <= Val(q.modified_before))
    /\ (IsSet(q.content_pattern) =>
           Contains(Lower(Entry(f.path).text), Lower(Val(q.content_pattern))))

\* the same for a path of the tree
SatisfiesPath(path, q) == Satisfies(FileInfoFromPath(path), q)

\* res is the first p.limit elements of the stable sort of all by the
\* requested key and order, said without sorting: res has the right
\* length, is drawn from all, ascends in the order "key first, position in
\* all second", and precedes in that order everything it leaves out
IsFirstN(res, all, p) ==
    LET Idx(f) == CHOOSE i \in 1..Len(all) : all[i] = f
        Lt(a, b) == IF p.sort_order = "desc" THEN KeyLess(b, a, p.sort_by)
                    ELSE KeyLess(a, b, p.sort_by)
        Before(a, b) == Lt(a, b) \/ (~Lt(b, a) /\ Idx(a) < Idx(b))
    IN  /\ Len(res) = (IF p.limit < Len(all) THEN p.limit ELSE Len(all))
        /\ Range(res) \subseteq Range(all)
        /\ \A i, j \in 1..Len(res) : i < j => Before(res[i], res[j])
        /\ \A f \in Range(all) \ Range(res) :
               \A i \in 1..Len(res) : Before(res[i], f)

\* the files list execute returns when PythonBackend walks the tree in the
\* given listing order and nothing fails
PythonExecute(p, listing) ==
    LET Pass(path) ==
            SearchExecutor_post_filter(path, p.query, "none").returns
        kept == SelectSeq(PythonBackend_search(p.query, listing), Pass)
    IN  execute_shape([i \in 1..Len(kept) |-> FileInfoFromPath(kept[i])], p)

\* the external tool ran to its end and reported success, or no tool was
\* involved, and no candidate met a read failure
CleanRun ==
    /\ failed = {}
    /\ tool.status \in {"none", "completed"}
    /\ tool.returncode = 0

\* every FileInfo the walk of the whole tree would match, in walk order
WalkerAllMatching ==
    LET all == yielded \o stream
        Match(path) == SatisfiesPath(path, params.query)
        kept == SelectSeq(all, Match)
    IN  [i \in 1..Len(kept) |-> FileInfoFromPath(kept[i])]

InvalidBase(q) == ~PathExists(q.path) \/ ~PathIsDir(q.path)

\* the candidates backend b yields for q when its walk or its tool meets
\* the tree in the given listing order and runs to its end
BackendCandidates(b, q, listing) ==
    IF b = "python" THEN PythonBackend_search(q, listing)
    ELSE LET run == ToolRun(b, q, listing)
         IN  AdapterSearch(b, q, [status |-> "completed",
                                  returncode |-> run.returncode,
                                  stdout |-> run.stdout]).yields

\* the list `files` of execute before the sort and the limit, on such a run
\* without read failures
SurvivorsClean(b, q, listing) ==
    LET Pass(path) == SearchExecutor_post_filter(path, q, "none").returns
        kept == SelectSeq(BackendCandidates(b, q, listing), Pass)
    IN  [i \in 1..Len(kept) |-> FileInfoFromPath(kept[i])]

\* the files list execute returns on such a run
ExecuteClean(b, p, listing) ==
    execute_shape(SurvivorsClean(b, p.query, listing), p)

\* the paths of the tree the search of q covers: everything below the base
\* directory, or its direct children for recursive=false
InScope(path, q) ==
    IF q.recursive THEN IsBelow(path, q.path) ELSE IsChildOf(path, q.path)

\* the regular files the search of q covers
RegularFiles(q) == {path \in TreePaths : InScope(path, q) /\ ~Entry(path).is_dir}

IsDotfile(path) == Head(PathName(path)) = "."

\* q sets none of the filters fs leaves out of account
OnlyFilters(q, fs) ==
    \A f \in {"pattern", "extensions", "min_size", "max_size",
               "modified_after", "modified_before", "content_pattern"} \ fs :
        q[f] = DefaultQuery[f]

----------------------------------------------------------------------------
(* Claims *)

\* C1: for every query, sort and limit on the fixed tree, execute returns
\* the same files list whichever backend produced the candidates: the list
\* a run on any backend returns is the list a PythonBackend run returns.
C1_BackendEquivalence ==
    (pc = "done" /\ CleanRun) =>
        \E listing \in ListingOrders : result = PythonExecute(params, listing)

\* C2: whatever the backend yields, every FileInfo in the result of execute
\* is a non-directory that satisfies every constraint set in the query.
C2_ResultSatisfiesQuery ==
    pc = "done" =>
        \A i \in 1..Len(result) : Satisfies(result[i], params.query)

\* C2 witness: a run returned files although the backend had yielded a
\* directory and a candidate that violates the query
C2_Witness ==
    /\ pc = "done"
    /\ result # <<>>
    /\ \E path \in Range(yielded) : Entry(path).is_dir
    /\ \E path \in Range(yielded) :
           ~Entry(path).is_dir /\ ~SatisfiesPath(path, params.query)

\* C3: for every limit below the number of candidates that passed the
\* filter, execute returns exactly the first `limit` elements of the fully
\* sorted list of all of them.
C3_SortThenTruncate ==
    (pc = "done" /\ params.limit < Len(files)) =>
        IsFirstN(result, files, params)

\* C3 witness: the limit cut the list and the survivors are not the first
\* `limit` candidates in discovery order
C3_Witness ==
    /\ pc = "done"
    /\ params.limit > 0
    /\ params.limit < Len(files)
    /\ result # SliceTo(files, params.limit)

\* C4: for every limit below the number of matching files, the executor
\* that walks the tree itself returns exactly the first `limit` elements of
\* the fully sorted list of all matching files.
C4_WalkerSortThenTruncate ==
    (pc = "done" /\ backend = "walker" /\ failed = {}
        /\ params.limit < Len(WalkerAllMatching)) =>
        IsFirstN(result, WalkerAllMatching, params)

\* C5: when the base path does not exist or is not a directory, execute
\* raises InvalidPathError before the backend is asked for anything: no
\* search is started, no candidate is yielded, stat'ed or read.
C5_InvalidPathBeforeSearch ==
    (pc # "ready" /\ InvalidBase(params.query)) =>
        /\ pc = "raised"
        /\ raised = "InvalidPathError"
        /\ searchCalls = 0
        /\ yielded = <<>>
        /\ statted = {}
        /\ contentRead = {}

\* C5 witness: execute was refused on a base path that exists and is a file
C5_Witness ==
    /\ pc = "raised"
    /\ raised = "InvalidPathError"
    /\ params.query.path = FilePath
    /\ PathExists(params.query.path)

\* C6: with recursive=false every returned file is a direct child of the
\* base directory, whichever backend produced the candidates.
C6_NonRecursiveDirectChildren ==
    (pc = "done" /\ ~params.query.recursive) =>
        \A i \in 1..Len(result) :
            IsChildOf(result[i].path, params.query.path)

\* C7: when the adapter's tool times out or cannot be spawned, the search
\* yields no candidate and no exception reaches the caller: execute returns
\* a result with zero files.
C7_ToolFailureYieldsNothing ==
    tool.status \in {"timeout", "oserror"} =>
        /\ raised = ""
        /\ pc # "raised"
        /\ stream = <<>>
        /\ yielded = <<>>
        /\ (pc = "done" => result = <<>>)

\* C8: when the adapter's tool exits with a non-zero status, the search
\* yields nothing: no line of stdout becomes a candidate.
C8_NonZeroExitYieldsNothing ==
    (tool.status = "completed" /\ tool.returncode # 0) =>
        (stream = <<>> /\ yielded = <<>>)

\* C9: a read failure on one candidate after the backend yielded it drops
\* that candidate only: execute does not raise, the failed candidate is not
\* in files, and every other yielded candidate that satisfies the query is.
C9_FailureSkipsOneCandidate ==
    /\ failed # {} => pc # "raised"
    /\ \A path \in failed : FileInfoFromPath(path) \notin Range(files)
    /\ pc = "done" =>
           \A path \in Range(yielded) \ failed :
               SatisfiesPath(path, params.query) =>
                   FileInfoFromPath(path) \in Range(files)

\* C9 witness: execute returned files although a candidate that satisfies
\* the query met a read failure
C9_Witness ==
    /\ pc = "done"
    /\ files # <<>>
    /\ \E path \in failed : SatisfiesPath(path, params.query)

\* C10: select_backend returns a backend instance and never raises, for
\* every preference string and every availability of the external tools.
C10_SelectNeverFails ==
    pc # "select" =>
        /\ pc = "selected"
        /\ raised = ""
        /\ backend \in BACKENDS

\* C10 witness: an unregistered preference on a machine without any of the
\* external tools ended in the in-process walker
C10_Witness ==
    /\ pc = "selected"
    /\ preference \notin BACKENDS \cup {"auto"}
    /\ \A b \in ExternalBackends : ~is_available(b, env)
    /\ backend = "python"

\* C11: for a registered preference p, select_backend(p) returns backend p
\* when p is available, and otherwise the backend that the automatic
\* selection returns under the same availability.
C11_ExplicitPreference ==
    (pc = "selected" /\ preference \in BACKENDS) =>
        backend = IF is_available(preference, env) THEN preference
                  ELSE select_backend("auto", env).backend

\* C11 witness: the preferred backend is registered but not available and
\* the selection fell back to an external tool that is
C11_Witness ==
    /\ pc = "selected"
    /\ preference \in BACKENDS
    /\ ~is_available(preference, env)
    /\ backend \in ExternalBackends

\* the first available backend in the order fd, everything, find, python
FirstAvailable(e) ==
    IF is_available("fd", e) THEN "fd"
    ELSE IF is_available("everything", e) THEN "everything"
    ELSE IF is_available("find", e) THEN "find"
    ELSE "python"

\* C12: select_backend("auto") returns the first available backend in the
\* order fd, everything, find, python; the in-process walker is returned
\* only when none of the three external tools is available.
C12_AutoPriority ==
    (pc = "selected" /\ preference = "auto") =>
        /\ backend = FirstAvailable(env)
        /\ backend = "python" =>
               \A b \in ExternalBackends : ~is_available(b, env)

\* C12 witness: the automatic selection passed over fd, which is missing,
\* and took find
C12_Witness ==
    /\ pc = "selected"
    /\ preference = "auto"
    /\ ~is_available("fd", env)
    /\ is_available("find", env)
    /\ backend = "find"

\* C13: for a base directory that holds one dotfile and N regular files
\* whose names do not start with a dot, and a query without any other
\* filter, execute returns N files for include_hidden=false and N+1 for
\* include_hidden=true, and for include_hidden=false no returned name
\* starts with a dot.
C13_HiddenGating ==
    LET q       == params.query
        dots    == {path \in RegularFiles(q) : IsDotfile(path)}
        regular == RegularFiles(q) \ dots
    IN  (pc = "done" /\ CleanRun /\ OnlyFilters(q, {})
            /\ params.limit = DefaultParams.limit
            /\ Cardinality(dots) = 1) =>
            /\ Len(result) = Cardinality(regular)
                              + (IF q.include_hidden THEN 1 ELSE 0)
            /\ ~q.include_hidden =>
                   \A i \in 1..Len(result) : Head(result[i].name) # "."

\* C14: the extension filter ignores letter case in both directions: with
\* the extensions as the only filter, every regular file the search covers
\* whose suffix equals one of the query's extensions up to letter case (and
\* which is not hidden from the query) is returned.
C14_ExtensionCaseInsensitive ==
    LET q == params.query
    IN  (pc = "done" /\ CleanRun /\ q.extensions # <<>>
            /\ OnlyFilters(q, {"extensions"})
            /\ params.limit = DefaultParams.limit) =>
            \A path \in RegularFiles(q) :
                (/\ (q.include_hidden \/ ~IsDotfile(path))
                 /\ \E e \in Range(q.extensions) :
                        Lower(PathSuffix(path)) = Lower(e)) =>
                    FileInfoFromPath(path) \in Range(result)

\* the SearchParams p with every extension written with its leading dot
Dotted(p) ==
    [p EXCEPT !.query.extensions =
        [i \in 1..Len(p.query.extensions) |->
            <<".">> \o LStripDot(p.query.extensions[i])]]

\* C15: a query whose extensions are written without the leading dot
\* returns what the query with the dotted extensions returns.
C15_ExtensionDotNormalized ==
    (pc = "done" /\ CleanRun
        /\ \E e \in Range(params.query.extensions) : Head(e) # ".") =>
        \E listing \in ListingOrders :
            result = ExecuteClean(backend, Dotted(params), listing)

FilterFields ==
    {"pattern", "extensions", "min_size", "max_size", "modified_after",
     "modified_before", "content_pattern"}

\* q with its filter f unset
Unset(q, f) == [q EXCEPT ![f] = DefaultQuery[f]]

C17_SizeBoundsInclusive ==
    LET q  == params.query
        lo == IF IsSet(q.min_size) THEN Val(q.min_size) ELSE 0
        InBounds(size) ==
            lo <= size /\ (IsSet(q.max_size) => size <= Val(q.max_size))
        OnBound(size) ==
            \/ (IsSet(q.min_size) /\ size = Val(q.min_size))
            \/ (IsSet(q.max_size) /\ size = Val(q.max_size))
        sized == IsSet(q.min_size) \/ IsSet(q.max_size)
    IN  /\ (pc = "done" /\ CleanRun /\ sized
                /\ OnlyFilters(q, {"min_size", "max_size"})
                /\ params.limit = DefaultParams.limit) =>
               /\ \A i \in 1..Len(result) : InBounds(result[i].size)
               /\ \A path \in RegularFiles(q) :
                      (/\ (q.include_hidden \/ ~IsDotfile(path))
                       /\ OnBound(Entry(path).size)
                       /\ InBounds(Entry(path).size)) =>
                          FileInfoFromPath(path) \in Range(result)
               /\ (IsSet(q.max_size) /\ lo > Val(q.max_size)) =>
                      result = <<>>
        /\ (IsSet(q.max_size) /\ lo > Val(q.max_size) /\ failed = {}
                /\ tool.status # "oserror" /\ ~InvalidBase(q)) =>
               pc # "raised"

\* a's sort key equals b's
KeyEqual(a, b, sort_by) == ~KeyLess(a, b, sort_by) /\ ~KeyLess(b, a, sort_by)

\* C18: the returned list is ordered by the requested sort field: along the
\* list the keys never decrease for ascending order and never increase for
\* descending order.
C18_ResultOrdered ==
    pc = "done" =>
        \A i, j \in 1..Len(result) :
            i < j =>
                IF params.sort_order = "desc"
                THEN ~KeyLess(result[i], result[j], params.sort_by)
                ELSE ~KeyLess(result[j], result[i], params.sort_by)

\* C18 witness: a descending result whose keys really fall, returned from
\* candidates that were discovered in another order
C18_Witness ==
    /\ pc = "done"
    /\ params.sort_order = "desc"
    /\ Len(result) >= 2
    /\ KeyLess(result[2], result[1], params.sort_by)
    /\ result # SliceTo(files, params.limit)

\* position of the file of FileInfo f among the candidates the backend
\* yielded
YieldIndex(f) == CHOOSE i \in 1..Len(yielded) : PathResolve(yielded[i]) = f.path

\* C19: the sort is stable: returned files with equal sort keys stand in
\* the order in which the backend yielded them, for ascending and for
\* descending order.
C19_SortStable ==
    pc = "done" =>
        \A i, j \in 1..Len(result) :
            (i < j /\ KeyEqual(result[i], result[j], params.sort_by)) =>
                YieldIndex(result[i]) < YieldIndex(result[j])

\* C19 witness: a descending result that holds two files with equal keys
C19_Witness ==
    /\ pc = "done"
    /\ params.sort_order = "desc"
    /\ \E i, j \in 1..Len(result) :
           i < j /\ KeyEqual(result[i], result[j], params.sort_by)

\* C20: a second execution of the same SearchParams on the unchanged tree
\* returns the same files list (and so the same total_count): the list a
\* run returned is the list every repeated run returns, for every limit and
\* sort field, ties on the sort key included.
C20_RepeatableResult ==
    (pc = "done" /\ CleanRun) =>
        \A first \in ListingOrders :
            BackendCandidates(backend, params.query, first) = yielded =>
                \A again \in RepeatListings(backend, first) :
                    ExecuteClean(backend, params, again) = result

MetadataOk(path, q) == SatisfiesPath(path, Unset(q, "content_pattern"))

\* C24: the content check is last: the content of a candidate is read only
\* after the candidate passed the directory, hidden, pattern, extension,
\* size and modification-time checks, and never when content_pattern is
\* unset.
C24_ContentCheckLast ==
    \A path \in contentRead :
        /\ Truthy(params.query.content_pattern)
        /\ MetadataOk(path, params.query)

\* C24 witness: with a content pattern set, one candidate was read and
\* another, which fails a cheaper check, was dropped unread
C24_Witness ==
    /\ contentRead # {}
    /\ \E path \in Range(yielded) \ contentRead :
           ~Entry(path).is_dir /\ ~MetadataOk(path, params.query)

\* C25: every path PythonBackend.search yields is a non-directory that
\* meets the hidden, pattern, extension, size and modified-time constraints
\* and, for recursive=false, is a direct child of the base directory; so
\* on its output, with no read failing, the post-filter drops only
\* candidates that fail the content pattern.
C25_PythonBackendTrusted ==
    backend = "python" =>
        /\ \A path \in Range(yielded) \cup Range(stream) :
               MetadataOk(path, params.query) /\ InScope(path, params.query)
        /\ (pc = "done" /\ failed = {}) =>
               \A path \in Range(yielded) :
                   FileInfoFromPath(path) \notin Range(files) =>
                       /\ Truthy(params.query.content_pattern)
                       /\ ~Contains(Lower(Entry(path).text),
                                    Lower(Val(params.query.content_pattern)))

\* C25 witness: a PythonBackend run with a filter and a content pattern
\* whose post-filter kept one candidate and dropped another
C25_Witness ==
    /\ backend = "python"
    /\ pc = "done"
    /\ failed = {}
    /\ files # <<>>
    /\ Len(files) < Len(yielded)
    /\ \E path \in RegularFiles(params.query) : path \notin Range(yielded)

\* C26: the -size and -mtime arguments FindBackend builds never exclude a
\* true match: with size bounds and modified_after as the only filters,
\* every regular file the search covers that meets those inclusive bounds
\* is printed by find and so reaches the post-filter.
C26_FindFlagsKeepMatches ==
    LET q == params.query
    IN  (backend = "find" /\ pc = "done" /\ CleanRun
            /\ OnlyFilters(q, {"min_size", "max_size", "modified_after"})) =>
            \A path \in RegularFiles(q) :
                StatBoundsOk(Entry(path), q) => path \in Range(yielded)

\* C27: every returned file lies inside the base directory of the query,
\* whichever backend produced the candidates.
C27_ResultInsideBase ==
    pc = "done" =>
        \A i \in 1..Len(result) : IsBelow(result[i].path, params.query.path)

\* C22: _build_command is a pure function of the query: two calls on the
\* same adapter with the same query return equal argument lists, at
\* whatever time they are made, and no process is spawned.
C22_BuildCommandPure ==
    /\ \A i, j \in 1..Len(cmds) : cmds[i] = cmds[j]
    /\ cmds # <<>> => (tool = NoTool /\ searchCalls = 0)

LLMErrors == {"LLMConnectionError", "LLMResponseError", "LLMParseError"}

\* C23: LLMParser.parse either returns a SearchQuery or raises
\* LLMConnectionError, LLMResponseError or LLMParseError; no other
\* exception leaves it, whatever the service answers.
C23_ParseRaisesOnlyLLMErrors ==
    (content # <<>> /\ pc # "parse") =>
        \/ (pc = "returned" /\ raised = "" /\ IsSet(parsed))
        \/ (pc = "raised" /\ raised \in LLMErrors)

\* the multiplier of a unit name, as a power of 1024
UnitExp(u) ==
    CASE Upper(u) = <<"B">> -> 0 [] Upper(u) = <<"K", "B">> -> 1
      [] Upper(u) = <<"M", "B">> -> 2 [] Upper(u) = <<"G", "B">> -> 3
      [] Upper(u) = <<"T", "B">> -> 4

\* C30: for a number followed by one of the units B, KB, MB, GB, TB, in any
\* letter case and with blanks around, _parse_size returns the number times
\* the unit's multiplier (1024 to the power 0..4), and for a string of
\* digits without a unit it returns that integer.
C30_ParseSizeUnits ==
    (size_str # <<>> /\ pc # "parse_size") =>
        \A n \in SizeNumbers, u \in SizeUnits, l \in SizeLayouts :
            size_str = SizeString(n, u, l) =>
                IF u # <<>>
                THEN /\ raised = ""
                     /\ parsed = Some(IntTimes(PyFloat(n), UnitExp(u)))
                ELSE IsDigits(n) =>
                         /\ raised = ""
                         /\ parsed = Some([mant |-> DigitsVal(n), exp |-> 0])

\* the workers whose finished or error signal has not been handled yet
ActiveWorkers == {i \in 1..Len(workers) : workers[i].state # "handled"}

\* C28: at most one SearchWorker is in progress at any time: while a
\* worker's signal has not been handled the search input and button are
\* disabled, that worker is the one started last, and every queued result
\* belongs to it.
C28_SingleWorker ==
    /\ Cardinality(ActiveWorkers) <= 1
    /\ ActiveWorkers # {} =>
           (~search_bar.enabled /\ ActiveWorkers = {search_worker})
    /\ \A k \in 1..Len(signals) : signals[k].worker = search_worker

\* C28 witness: a second search was started after the first was handled,
\* and its result is queued for the window
C28_Witness ==
    /\ Len(workers) >= 2
    /\ shown = 1
    /\ signals # <<>>
    /\ signals[1].worker = 2

====
